---- MODULE Spec2Model ----
(***************************************************************************)
(* A model of src/app.py, the Netflix dashboard script: load_data and its  *)
(* cleaning, the three distribution plots, generate_wordcloud, and the     *)
(* top-to-bottom evaluation of the page with the two st.cache_data caches. *)
(*                                                                         *)
(* A text cell is a sequence of one-character strings.  A missing cell     *)
(* (pandas NaN) is the marker NaN for a categorical cell, NaNText for a    *)
(* text cell and NaNDate for a date cell.  A date cell is the text of a    *)
(* date: its layout (fmt) and its three numbers in the order they are      *)
(* written, "MDY" for "September 25, 2021" and "YMD" for "2021-09-25".     *)
(***************************************************************************)
EXTENDS Integers, Sequences, FiniteSets, TLC

VARIABLES
    file,             \* the CSV at netflix_titles.csv: [exists, rows]
    widget,           \* the selectbox's value kept by the session
    pc,               \* the script's position in the current evaluation
    failed_at,        \* the step whose call raised, "none" when none did
    runs,             \* evaluations of the page started so far
    netflix_raw,      \* script variable (line 32)
    netflix_df,       \* script variable (line 32)
    wordcloud_option, \* script variable (line 142)
    page,             \* the blocks rendered by the current evaluation, in order
    overview,         \* the content of the overview block (lines 41-46)
    type_fig,         \* the figure of plot_type_distribution
    rating_fig,       \* the figure of plot_rating_distribution
    type_rating_fig,  \* the figure of plot_type_vs_rating
    wordcloud_fig,    \* the figure of generate_wordcloud
    load_cache,       \* st.cache_data's entries for load_data
    wc_cache,         \* st.cache_data's entries for generate_wordcloud
    load_log,         \* one entry per invocation of load_data
    wc_log            \* one entry per invocation of generate_wordcloud

vars == <<file, widget, pc, failed_at, runs, netflix_raw, netflix_df,
          wordcloud_option, page, overview, type_fig, rating_fig,
          type_rating_fig, wordcloud_fig, load_cache, wc_cache, load_log,
          wc_log>>

(***************************************************************************)
(* Bounds of the model.                                                    *)
(***************************************************************************)
MaxRows == 3
MaxRuns == 3

(***************************************************************************)
(* Cells and records.                                                      *)
(***************************************************************************)
NaN == "NaN"
NaNText == <<"NaN">>
NaNDate == [fmt |-> "NaN", f1 |-> 0, f2 |-> 0, f3 |-> 0]

USA == <<"U", "S", "A">>
India == <<"I", "n", "d", "i", "a">>
Comma == <<",">>
Space == <<" ">>

\* The columns of the table.  title stands for the columns the script never
\* reads by name (show_id, title, release_year, duration, description): like
\* every column they count for dropna.
Columns == {"title", "type", "rating", "date_added", "listed_in", "country",
            "cast", "director"}

Range(s) == {s[i] : i \in DOMAIN s}

SeqsUpTo(S, n) == UNION {[1..k -> S] : k \in 0..n}

\* The missing-value marker of a column, by the column's kind of cell.
na_of(c) ==
    IF c = "date_added" THEN NaNDate
    ELSE IF c \in {"listed_in", "country", "cast", "director"} THEN NaNText
    ELSE NaN

isna(r, c) == r[c] = na_of(c)

(***************************************************************************)
(* DataFrame.dropna(): how='any' over every column.                        *)
(***************************************************************************)
dropna_all(rows) ==
    SelectSeq(rows, LAMBDA r : \E c \in Columns : ~isna(r, c))

dropna(rows) ==
    SelectSeq(rows, LAMBDA r : \A c \in Columns : ~isna(r, c))

(***************************************************************************)
(* pd.to_datetime(..., format='mixed'): each element is parsed by the      *)
(* layout it is written in (month first for a month-day-year text), must   *)
(* be a date of the calendar and must fit a Timestamp (the years a         *)
(* Timestamp holds whole are 1678 to 2261); errors='raise'.                *)
(***************************************************************************)
IsLeap(y) == (y % 4 = 0 /\ y % 100 # 0) \/ y % 400 = 0

DaysIn(m, y) ==
    IF m = 2 THEN (IF IsLeap(y) THEN 29 ELSE 28)
    ELSE IF m \in {4, 6, 9, 11} THEN 30 ELSE 31

to_datetime(cell) ==
    LET y == IF cell.fmt = "YMD" THEN cell.f1 ELSE cell.f3
        m == IF cell.fmt = "YMD" THEN cell.f2 ELSE cell.f1
        d == IF cell.fmt = "YMD" THEN cell.f3 ELSE cell.f2
    IN  [ok    |-> /\ cell.fmt \in {"MDY", "YMD"}
                   /\ m \in 1..12
                   /\ d \in 1..DaysIn(m, y)
                   /\ y \in 1678..2261,
         year  |-> y,
         month |-> m,
         day   |-> d]

(***************************************************************************)
(* The three derived columns of load_data (lines 24-27).                   *)
(***************************************************************************)
derive_swapped(r) ==
    LET ts == to_datetime(r.date_added)
    IN  [title |-> r.title, type |-> r.type, rating |-> r.rating,
         date_added |-> [year |-> ts.year, month |-> ts.month, day |-> ts.day],
         listed_in |-> r.listed_in, country |-> r.country, cast |-> r.cast,
         director |-> r.director,
         day_added |-> ts.month, year_added |-> ts.year,
         month_added |-> ts.day]

derive(r) ==
    LET ts == to_datetime(r.date_added)
    IN  [title |-> r.title, type |-> r.type, rating |-> r.rating,
         date_added |-> [year |-> ts.year, month |-> ts.month, day |-> ts.day],
         listed_in |-> r.listed_in, country |-> r.country, cast |-> r.cast,
         director |-> r.director,
         day_added |-> ts.day, year_added |-> ts.year,
         month_added |-> ts.month]

(***************************************************************************)
(* The body of load_data.  parsed: pd.read_csv read the file; returned:    *)
(* the body reached its return statement (nothing raised).                 *)
(***************************************************************************)
load_data(f) ==
    IF ~f.exists
    THEN [parsed |-> FALSE, returned |-> FALSE, raw |-> <<>>, df |-> <<>>]
    ELSE LET raw == f.rows
             kept == dropna(raw)
         IN  IF \E i \in DOMAIN kept : ~to_datetime(kept[i].date_added).ok
             THEN [parsed |-> TRUE, returned |-> FALSE,
                   raw |-> <<>>, df |-> <<>>]
             ELSE [parsed |-> TRUE, returned |-> TRUE, raw |-> raw,
                   df |-> [i \in DOMAIN kept |-> derive(kept[i])]]

(***************************************************************************)
(* Series.value_counts(): the distinct non-missing values with their       *)
(* counts, sorted by count, largest first; values of equal count keep the  *)
(* order of their first occurrence.                                        *)
(***************************************************************************)
column(df, c) == [i \in DOMAIN df |-> df[i][c]]

count_of(s, v) == Cardinality({i \in DOMAIN s : s[i] = v})

unique_keepna(s) ==
    LET F[i \in 0..Len(s)] ==
            IF i = 0 THEN <<>>
            ELSE LET seen == F[i - 1]
                 IN  IF s[i] \in Range(seen) THEN seen ELSE Append(seen, s[i])
    IN  F[Len(s)]

\* Series.unique() without the missing values, in order of first occurrence.
unique(s) ==
    LET F[i \in 0..Len(s)] ==
            IF i = 0 THEN <<>>
            ELSE LET seen == F[i - 1]
                 IN  IF s[i] = NaN \/ s[i] \in Range(seen) THEN seen
                     ELSE Append(seen, s[i])
    IN  F[Len(s)]

insert_ascending(q, e) ==
    LET k == Cardinality({j \in DOMAIN q : q[j].count <= e.count})
    IN  SubSeq(q, 1, k) \o <<e>> \o SubSeq(q, k + 1, Len(q))

insert_descending(q, e) ==
    LET k == Cardinality({j \in DOMAIN q : q[j].count >= e.count})
    IN  SubSeq(q, 1, k) \o <<e>> \o SubSeq(q, k + 1, Len(q))

value_counts(s) ==
    LET u == unique(s)
        F[i \in 0..Len(u)] ==
            IF i = 0 THEN <<>>
            ELSE insert_descending(F[i - 1],
                     [value |-> u[i], count |-> count_of(s, u[i])])
    IN  F[Len(u)]

index(vc) == [i \in DOMAIN vc |-> vc[i].value]

(***************************************************************************)
(* sns.countplot: one bar per category, in the given order; without an     *)
(* order, the non-missing values in order of first occurrence.  With hue,  *)
(* one bar per (category, hue level).                                      *)
(***************************************************************************)
countplot(s, order) ==
    [i \in DOMAIN order |-> [value |-> order[i], count |-> count_of(s, order[i])]]

countplot_hue(df, x, hue, order) ==
    LET levels == unique(column(df, hue))
    IN  [i \in DOMAIN order |->
            [value |-> order[i],
             bars  |-> [j \in DOMAIN levels |->
                          [hue   |-> levels[j],
                           count |-> Cardinality({k \in DOMAIN df :
                                        /\ df[k][x] = order[i]
                                        /\ df[k][hue] = levels[j]})]]]]

(***************************************************************************)
(* plot_type_distribution (lines 54-74).  Axes.pie raises ValueError when  *)
(* labels or explode are not of the length of the sizes.                   *)
(***************************************************************************)
plot_type_distribution(df) ==
    LET labels == <<"Movie", "TV Show">>
        size == value_counts(column(df, "type"))
        explode == <<0, 5>>     \* hundredths: [0, 0.05]
    IN  [returned |-> Len(size) = Len(labels) /\ Len(size) = Len(explode),
         bar |-> countplot(column(df, "type"), unique(column(df, "type"))),
         pie |-> [i \in DOMAIN size |->
                    [label |-> IF i \in DOMAIN labels THEN labels[i] ELSE "",
                     size  |-> size[i].count]]]

(***************************************************************************)
(* plot_rating_distribution (lines 83-99).                                 *)
(***************************************************************************)
plot_rating_distribution(df) ==
    LET rating_order == index(value_counts(column(df, "rating")))
        vc == value_counts(column(df, "rating"))
    IN  [bar |-> countplot(column(df, "rating"), rating_order),
         pie |-> [i \in DOMAIN vc |->
                    [label |-> vc[i].value, size |-> vc[i].count]]]

(***************************************************************************)
(* plot_type_vs_rating (lines 101-108).                                    *)
(***************************************************************************)
plot_type_vs_rating_unordered(df) ==
    [bar |-> countplot_hue(df, "rating", "type", unique(column(df, "rating")))]

plot_type_vs_rating(df) ==
    [bar |-> countplot_hue(df, "rating", "type",
                           index(value_counts(column(df, "rating"))))]

(***************************************************************************)
(* generate_wordcloud (lines 123-139).  WordCloud.generate raises          *)
(* ValueError when the text holds no word.                                 *)
(***************************************************************************)
\* Series.str.replace(',', '')
str_replace_comma(cell) == SelectSeq(cell, LAMBDA ch : ch # ",")

\* " ".join(cells)
join_space(cells) ==
    LET F[i \in 0..Len(cells)] ==
            IF i = 0 THEN <<>>
            ELSE IF i = 1 THEN cells[1]
            ELSE F[i - 1] \o Space \o cells[i]
    IN  F[Len(cells)]

generate_wordcloud(df, column_name, title) ==
    LET cells == column(df, column_name)
        text == join_space([i \in DOMAIN cells |-> str_replace_comma(cells[i])])
    IN  [returned |-> \E i \in DOMAIN text : text[i] # " ",
         text  |-> text,
         title |-> title,
         width |-> 1920, height |-> 1080, background_color |-> "white"]

(***************************************************************************)
(* The selectbox's options and wordcloud_map (lines 142-155).              *)
(***************************************************************************)
Options == <<"listed_in (Category)", "country", "cast", "director">>

wordcloud_map ==
    [o \in Range(Options) |->
        CASE o = "listed_in (Category)" ->
                 <<"listed_in", "Most Popular Categories on Netflix">>
          [] o = "country" ->
                 <<"country", "Most Contributing Countries on Netflix">>
          [] o = "cast" ->
                 <<"cast", "Most Featured Cast Members on Netflix">>
          [] o = "director" ->
                 <<"director", "Most Frequent Directors on Netflix">>]

(***************************************************************************)
(* st.cache_data (lines 14, 122): the decorated function's result is kept  *)
(* under the hash of its arguments; a call whose arguments are cached      *)
(* returns the kept result without running the body, and a body that       *)
(* raises leaves no entry.  computed: the body ran.                        *)
(***************************************************************************)
cache_data(cache, key, body) ==
    IF key \in DOMAIN cache
    THEN [cache |-> cache, value |-> cache[key], computed |-> FALSE]
    ELSE [cache |-> IF body.returned THEN (key :> body) @@ cache ELSE cache,
          value |-> body, computed |-> TRUE]

load_data_uncached(cache, file_path, f) ==
    [cache |-> cache, value |-> load_data(f), computed |-> TRUE]

load_data_cached(cache, file_path, f) ==
    cache_data(cache, <<file_path>>, load_data(f))

generate_wordcloud_uncached(cache, df, column_name, title) ==
    [cache |-> cache, value |-> generate_wordcloud(df, column_name, title),
     computed |-> TRUE]

generate_wordcloud_keyed_by_table(cache, df, column_name, title) ==
    cache_data(cache, <<df>>, generate_wordcloud(df, column_name, title))

generate_wordcloud_cached(cache, df, column_name, title) ==
    cache_data(cache, <<df, column_name, title>>,
               generate_wordcloud(df, column_name, title))

(***************************************************************************)
(* The input files.                                                        *)
(***************************************************************************)
Sep25 == [fmt |-> "MDY", f1 |-> 9, f2 |-> 25, f3 |-> 2021]
Junk == [fmt |-> "junk", f1 |-> 0, f2 |-> 0, f3 |-> 0]

Row(ty, ra, da, co) ==
    [title |-> "t", type |-> ty, rating |-> ra, date_added |-> da,
     listed_in |-> <<"D", ",", " ", "C">>, country |-> co,
     cast |-> <<"a", " ", "b">>, director |-> <<"d">>]

BaseRow == Row("Movie", "PG", Sep25, USA)

\* Rows that differ in type and rating, either of them possibly missing.
TypeRatingRows ==
    {[BaseRow EXCEPT !.type = t, !.rating = r] :
        t \in {"Movie", "TV Show", NaN}, r \in {"PG", "R", "TV-MA", NaN}}

\* Rows that differ in the date text: dates of the calendar, dates that are
\* not, a year no Timestamp holds, text that is no date, and no date.
DateTexts ==
    {[fmt |-> f, f1 |-> a, f2 |-> b, f3 |-> c] :
        f \in {"MDY"}, a \in {2, 12}, b \in {29, 31}, c \in {2020, 2021}}
    \cup
    {[fmt |-> f, f1 |-> a, f2 |-> b, f3 |-> c] :
        f \in {"YMD"}, a \in {2020, 2021}, b \in {2, 12}, c \in {29, 31}}
    \cup
    {[fmt |-> "YMD", f1 |-> 900, f2 |-> 1, f3 |-> 1], Junk, NaNDate}

DateRows == {[BaseRow EXCEPT !.date_added = d] : d \in DateTexts}

\* Rows with one column missing, one row per column, and a complete row.
MissingRows ==
    {[BaseRow EXCEPT ![c] = na_of(c)] : c \in Columns} \cup {BaseRow}

DataFiles ==
    {[exists |-> TRUE, rows |-> rows] :
        rows \in SeqsUpTo(TypeRatingRows, MaxRows)
                 \cup SeqsUpTo(DateRows, MaxRows - 1)
                 \cup SeqsUpTo(MissingRows, MaxRows - 1)}

\* The two-row fixture, and files on which each step of the page raises.
Fixture ==
    <<Row("Movie", "PG", Sep25, USA),
      Row("TV Show", "PG", Sep25, USA \o Comma \o Space \o India)>>

PageFiles ==
    {[exists |-> TRUE, rows |-> Fixture],
     [exists |-> TRUE,
      rows |-> Fixture \o <<Row("TV Show", "R", Sep25, USA \o Comma \o India)>>],
     [exists |-> TRUE, rows |-> Fixture \o <<Row("Movie", "R", Junk, USA)>>],
     [exists |-> TRUE, rows |-> <<Row("Movie", "PG", Sep25, USA)>>],
     [exists |-> TRUE,
      rows |-> <<Row("Movie", NaN, Sep25, USA),
                 Row("TV Show", "PG", Sep25, NaNText)>>],
     [exists |-> FALSE, rows |-> <<>>]}

(***************************************************************************)
(* The page: one evaluation of the script runs its steps in this order.    *)
(***************************************************************************)
FilePath == "netflix_titles.csv"

Steps == <<"load", "overview", "type", "rating", "type_rating", "select",
           "wordcloud", "done">>

StepNo(step) == CHOOSE i \in DOMAIN Steps : Steps[i] = step

NextStep(step) == Steps[StepNo(step) + 1]

NoTypeFig == [returned |-> FALSE, bar |-> <<>>, pie |-> <<>>]
NoRatingFig == [bar |-> <<>>, pie |-> <<>>]
NoTypeRatingFig == [bar |-> <<>>]
NoWordcloudFig ==
    [returned |-> FALSE, text |-> <<>>, title |-> "",
     width |-> 0, height |-> 0, background_color |-> ""]
NoOverview == [head |-> <<>>, raw_rows |-> 0, df_rows |-> 0]

FreshPage ==
    /\ pc = "load"
    /\ failed_at = "none"
    /\ netflix_raw = <<>>
    /\ netflix_df = <<>>
    /\ wordcloud_option = ""
    /\ page = <<>>
    /\ overview = NoOverview
    /\ type_fig = NoTypeFig
    /\ rating_fig = NoRatingFig
    /\ type_rating_fig = NoTypeRatingFig
    /\ wordcloud_fig = NoWordcloudFig

InitProcess ==
    /\ widget = Options[1]
    /\ runs = 1
    /\ load_cache = <<>>
    /\ wc_cache = <<>>
    /\ load_log = <<>>
    /\ wc_log = <<>>
    /\ FreshPage

Init == file \in PageFiles /\ InitProcess

InitData == file \in DataFiles /\ InitProcess

\* An exception no code catches ends the evaluation at the raising step.
RaiseIsolated(step) == pc' = NextStep(step) /\ failed_at' = step

Raise(step) == pc' = "error" /\ failed_at' = step

figs == <<overview, type_fig, rating_fig, type_rating_fig, wordcloud_fig>>
caches == <<load_cache, wc_cache, load_log, wc_log>>
script == <<netflix_raw, netflix_df, wordcloud_option>>

\* In the steps below lib_ok is whether the library calls of the step return:
\* a library-level failure is an exception like any other, and the script
\* catches none.

\* Line 32: netflix_raw, netflix_df = load_data("netflix_titles.csv")
Load ==
    /\ pc = "load"
    /\ LET res == load_data_cached(load_cache, FilePath, file)
       IN  /\ load_cache' = res.cache
           /\ load_log' = Append(load_log,
                  [parsed   |-> res.computed /\ res.value.parsed,
                   returned |-> res.value.returned,
                   raw      |-> res.value.raw,
                   df       |-> res.value.df])
           /\ IF res.value.returned
              THEN /\ netflix_raw' = res.value.raw
                   /\ netflix_df' = res.value.df
                   /\ pc' = NextStep("load")
                   /\ UNCHANGED failed_at
              ELSE /\ Raise("load")
                   /\ UNCHANGED <<netflix_raw, netflix_df>>
    /\ UNCHANGED <<file, widget, runs, wordcloud_option, page, figs,
                   wc_cache, wc_log>>

\* Lines 36-48: the overview block.
Overview ==
    /\ pc = "overview"
    /\ \E lib_ok \in BOOLEAN :
          IF lib_ok
          THEN /\ overview' =
                     [head |-> SubSeq(netflix_raw, 1,
                                  IF Len(netflix_raw) < 5
                                  THEN Len(netflix_raw) ELSE 5),
                      raw_rows |-> Len(netflix_raw),
                      df_rows |-> Len(netflix_df)]
               /\ page' = Append(page, "overview")
               /\ pc' = NextStep("overview")
               /\ UNCHANGED failed_at
          ELSE /\ Raise("overview")
               /\ UNCHANGED <<overview, page>>
    /\ UNCHANGED <<file, widget, runs, script, type_fig, rating_fig,
                   type_rating_fig, wordcloud_fig, caches>>

\* Line 76: st.pyplot(plot_type_distribution(netflix_raw))
TypeDistribution ==
    /\ pc = "type"
    /\ \E lib_ok \in BOOLEAN :
          LET fig == plot_type_distribution(netflix_raw)
          IN  IF fig.returned /\ lib_ok
              THEN /\ type_fig' = fig
                   /\ page' = Append(page, "type")
                   /\ pc' = NextStep("type")
                   /\ UNCHANGED failed_at
              ELSE /\ Raise("type")
                   /\ UNCHANGED <<type_fig, page>>
    /\ UNCHANGED <<file, widget, runs, script, overview, rating_fig,
                   type_rating_fig, wordcloud_fig, caches>>

\* Line 111: st.pyplot(plot_rating_distribution(netflix_raw))
RatingDistribution ==
    /\ pc = "rating"
    /\ \E lib_ok \in BOOLEAN :
          IF lib_ok
          THEN /\ rating_fig' = plot_rating_distribution(netflix_raw)
               /\ page' = Append(page, "rating")
               /\ pc' = NextStep("rating")
               /\ UNCHANGED failed_at
          ELSE /\ Raise("rating")
               /\ UNCHANGED <<rating_fig, page>>
    /\ UNCHANGED <<file, widget, runs, script, overview, type_fig,
                   type_rating_fig, wordcloud_fig, caches>>

\* Line 114: st.pyplot(plot_type_vs_rating(netflix_raw))
TypeVsRating ==
    /\ pc = "type_rating"
    /\ \E lib_ok \in BOOLEAN :
          IF lib_ok
          THEN /\ type_rating_fig' = plot_type_vs_rating(netflix_raw)
               /\ page' = Append(page, "type_rating")
               /\ pc' = NextStep("type_rating")
               /\ UNCHANGED failed_at
          ELSE /\ Raise("type_rating")
               /\ UNCHANGED <<type_rating_fig, page>>
    /\ UNCHANGED <<file, widget, runs, script, overview, type_fig,
                   rating_fig, wordcloud_fig, caches>>

\* Lines 142-145: wordcloud_option = st.selectbox(...)
SelectBox ==
    /\ pc = "select"
    /\ \E lib_ok \in BOOLEAN :
          IF lib_ok
          THEN /\ wordcloud_option' = widget
               /\ page' = Append(page, "select")
               /\ pc' = NextStep("select")
               /\ UNCHANGED failed_at
          ELSE /\ Raise("select")
               /\ UNCHANGED <<wordcloud_option, page>>
    /\ UNCHANGED <<file, widget, runs, netflix_raw, netflix_df, figs, caches>>

\* Lines 155-157: column, title = wordcloud_map[wordcloud_option];
\* st.pyplot(generate_wordcloud(netflix_df, column, title))
WordCloudStep ==
    /\ pc = "wordcloud"
    /\ LET column_name == wordcloud_map[wordcloud_option][1]
           title == wordcloud_map[wordcloud_option][2]
           res == generate_wordcloud_cached(wc_cache, netflix_df,
                                            column_name, title)
       IN  /\ wc_cache' = res.cache
           /\ wc_log' = Append(wc_log,
                  [df       |-> netflix_df,
                   column   |-> column_name,
                   computed |-> res.computed,
                   returned |-> res.value.returned,
                   fig      |-> res.value])
           /\ \E lib_ok \in BOOLEAN :
                 IF res.value.returned /\ lib_ok
                 THEN /\ wordcloud_fig' = res.value
                      /\ page' = Append(page, "wordcloud")
                      /\ pc' = NextStep("wordcloud")
                      /\ UNCHANGED failed_at
                 ELSE /\ Raise("wordcloud")
                      /\ UNCHANGED <<wordcloud_fig, page>>
    /\ UNCHANGED <<file, widget, runs, script, overview, type_fig,
                   rating_fig, type_rating_fig, load_cache, load_log>>

\* A user interaction after an evaluation has ended: the page is evaluated
\* again from the top.  The selection can change only if the selectbox was
\* rendered.
Rerun ==
    /\ pc \in {"done", "error"}
    /\ runs < MaxRuns
    /\ runs' = runs + 1
    /\ \E opt \in Range(Options) :
          /\ ("select" \in Range(page)) \/ opt = widget
          /\ widget' = opt
    /\ pc' = "load"
    /\ failed_at' = "none"
    /\ netflix_raw' = <<>>
    /\ netflix_df' = <<>>
    /\ wordcloud_option' = ""
    /\ page' = <<>>
    /\ overview' = NoOverview
    /\ type_fig' = NoTypeFig
    /\ rating_fig' = NoRatingFig
    /\ type_rating_fig' = NoTypeRatingFig
    /\ wordcloud_fig' = NoWordcloudFig
    /\ UNCHANGED <<file, caches>>

\* The file on disk is replaced between two evaluations.
FileRewrite ==
    /\ pc \in {"done", "error"}
    /\ runs < MaxRuns
    /\ file' \in PageFiles \ {file}
    /\ UNCHANGED <<widget, pc, failed_at, runs, script, page, figs, caches>>

Evaluate ==
    \/ Load
    \/ Overview
    \/ TypeDistribution
    \/ RatingDistribution
    \/ TypeVsRating
    \/ SelectBox
    \/ WordCloudStep

Next == Evaluate \/ Rerun \/ FileRewrite

Spec == Init /\ [][Next]_vars

NextData == Evaluate

SpecData == InitData /\ [][NextData]_vars

(***************************************************************************)
(* Properties.                                                             *)
(***************************************************************************)
\* The positions of the records of rows that have no missing field.
CompleteIdx(rows) ==
    {i \in DOMAIN rows : \A c \in Columns : rows[i][c] # na_of(c)}

\* The n-th smallest element of a set of numbers.
NthOf(S, n) == CHOOSE j \in S : Cardinality({k \in S : k <= j}) = n

SumOf(q) ==
    LET F[i \in 0..Len(q)] == IF i = 0 THEN 0 ELSE F[i - 1] + q[i]
    IN  F[Len(q)]

Rendered(block) == block \in Range(page)

\* C1: the raw table returned by load_data is the file's records, all of
\* them, and the cleaned table is, in order, exactly the raw records with no
\* missing field: its row count is the number of such records and never
\* exceeds the raw row count.
C1_CleanedIsTheCompleteRecords ==
    \A e \in Range(load_log) :
        e.returned =>
            LET C == CompleteIdx(e.raw)
            IN  /\ e.raw = file.rows
                /\ Len(e.raw) >= Len(e.df)
                /\ Len(e.df) = Cardinality(C)
                /\ \A n \in DOMAIN e.df :
                      \A c \in Columns \ {"date_added"} :
                          e.df[n][c] = e.raw[NthOf(C, n)][c]

C1_Witness ==
    \E e \in Range(load_log) :
        /\ e.returned
        /\ Len(e.df) > 0
        /\ Len(e.df) < Len(e.raw)
        /\ ~(1 \in CompleteIdx(e.raw))

\* C2 as stated: the per-type counts of the bar chart and of the pie of
\* plot_type_distribution each sum to the raw row count.
C2_CountsSumToRawRows ==
    Rendered("type") =>
        /\ SumOf([i \in DOMAIN type_fig.pie |-> type_fig.pie[i].size])
               = Len(netflix_raw)
        /\ SumOf([i \in DOMAIN type_fig.bar |-> type_fig.bar[i].count])
               = Len(netflix_raw)

\* C2 as amended: the per-type counts of the bar chart and of the pie each
\* sum to the number of raw records whose type is not missing.
C2_CountsSumToTypedRows ==
    Rendered("type") =>
        LET typed == {i \in DOMAIN netflix_raw : netflix_raw[i].type # NaN}
        IN  /\ SumOf([i \in DOMAIN type_fig.pie |-> type_fig.pie[i].size])
                   = Cardinality(typed)
            /\ SumOf([i \in DOMAIN type_fig.bar |-> type_fig.bar[i].count])
                   = Cardinality(typed)

C2_Witness ==
    /\ Rendered("type")
    /\ \E i \in DOMAIN netflix_raw : netflix_raw[i].type = NaN

\* C10: in the pie of plot_type_distribution every wedge has the size of the
\* count of the raw records of the type it is labelled with.
C10_WedgeLabelsMatchSizes ==
    Rendered("type") =>
        \A i \in DOMAIN type_fig.pie :
            type_fig.pie[i].size =
                Cardinality({k \in DOMAIN netflix_raw :
                                netflix_raw[k].type = type_fig.pie[i].label})

\* C4: the bars of plot_rating_distribution are the rating categories with
\* their record counts in non-increasing order of count, and the x axis of
\* plot_type_vs_rating lists the categories in the same order.
C4_RatingOrderNonIncreasing ==
    /\ Rendered("rating") =>
          LET bar == rating_fig.bar
          IN  /\ \A i, j \in DOMAIN bar :
                    i < j => /\ bar[i].count >= bar[j].count
                             /\ bar[i].value # bar[j].value
              /\ {bar[i].value : i \in DOMAIN bar}
                     = {netflix_raw[k].rating : k \in DOMAIN netflix_raw} \ {NaN}
              /\ \A i \in DOMAIN bar :
                    bar[i].count =
                        Cardinality({k \in DOMAIN netflix_raw :
                                        netflix_raw[k].rating = bar[i].value})
    /\ Rendered("type_rating") =>
          /\ DOMAIN type_rating_fig.bar = DOMAIN rating_fig.bar
          /\ \A i \in DOMAIN rating_fig.bar :
                type_rating_fig.bar[i].value = rating_fig.bar[i].value

C4_Witness ==
    /\ Rendered("type_rating")
    /\ Len(rating_fig.bar) >= 2
    /\ rating_fig.bar[1].count > rating_fig.bar[2].count
    /\ netflix_raw[1].rating = rating_fig.bar[2].value

\* The year, month and day a date text states, read off its layout.
TextYear(d) == IF d.fmt = "YMD" THEN d.f1 ELSE d.f3
TextMonth(d) == IF d.fmt = "YMD" THEN d.f2 ELSE d.f1
TextDay(d) == IF d.fmt = "YMD" THEN d.f3 ELSE d.f2

\* C8: every record of the cleaned table returned by load_data has
\* day_added in 1..31, month_added in 1..12 and a four-digit year_added, and
\* the three are the day, month and year of the record's own date text.
C8_DerivedDateFields ==
    \A e \in Range(load_log) :
        e.returned =>
            \A n \in DOMAIN e.df :
                LET text == e.raw[NthOf(CompleteIdx(e.raw), n)].date_added
                IN  /\ e.df[n].day_added \in 1..31
                    /\ e.df[n].month_added \in 1..12
                    /\ e.df[n].year_added \in 1000..9999
                    /\ e.df[n].day_added = TextDay(text)
                    /\ e.df[n].month_added = TextMonth(text)
                    /\ e.df[n].year_added = TextYear(text)

C8_Witness ==
    \E e \in Range(load_log) :
        /\ e.returned
        /\ Len(e.df) = 2
        /\ e.raw[1].date_added.fmt = "YMD"
        /\ e.raw[2].date_added.fmt = "MDY"
        /\ e.df[1].day_added = 29 /\ e.df[1].month_added = 2
        /\ e.df[2].day_added = 31 /\ e.df[2].month_added = 12

\* The maximal runs of characters other than sep in s, in order.
RECURSIVE SplitFrom(_, _, _, _, _)
SplitFrom(s, sep, i, done, cur) ==
    IF i > Len(s) THEN (IF cur = <<>> THEN done ELSE Append(done, cur))
    ELSE IF s[i] # sep THEN SplitFrom(s, sep, i + 1, done, Append(cur, s[i]))
    ELSE IF cur = <<>> THEN SplitFrom(s, sep, i + 1, done, <<>>)
    ELSE SplitFrom(s, sep, i + 1, Append(done, cur), <<>>)

Split(s, sep) == SplitFrom(s, sep, 1, <<>>, <<>>)

Flatten(qq) ==
    LET F[i \in 0..Len(qq)] == IF i = 0 THEN <<>> ELSE F[i - 1] \o qq[i]
    IN  F[Len(qq)]

\* The whitespace tokens of the entries of a cell, the entries being the
\* parts of the cell between its commas.
EntryTokens(cell) ==
    LET entries == Split(cell, ",")
    IN  Flatten([i \in DOMAIN entries |-> Split(entries[i], " ")])

Occurrences(q, t) == Cardinality({i \in DOMAIN q : q[i] = t})

SameBag(a, b) ==
    \A t \in Range(a) \cup Range(b) : Occurrences(a, t) = Occurrences(b, t)

\* C3: the whitespace tokens of the text generate_wordcloud hands to the
\* cloud renderer are, with their multiplicities, the tokens of the entries
\* of the column's cells: every entry of a multi-value cell counts on its
\* own and no token runs over two entries.
C3_TokensAreTheEntries ==
    \A e \in Range(wc_log) :
        e.computed =>
            SameBag(Split(e.fig.text, " "),
                    Flatten([i \in DOMAIN e.df |-> EntryTokens(e.df[i][e.column])]))

\* The spec's example: "USA, India" in one row and "USA" in another give
\* USA twice and India once.
C3_Example ==
    \A e \in Range(wc_log) :
        (/\ e.computed
         /\ e.column = "country"
         /\ Len(e.df) = 2
         /\ e.df[1].country = USA
         /\ e.df[2].country = USA \o Comma \o Space \o India)
        => /\ Occurrences(Split(e.fig.text, " "), USA) = 2
           /\ Occurrences(Split(e.fig.text, " "), India) = 1
           /\ Len(Split(e.fig.text, " ")) = 3

\* C5 as stated: over the evaluations of one process load_data parses the
\* file at most once, and every invocation that returns gives the tables of
\* the first one that did.
C5_ParsedAtMostOnce ==
    /\ Cardinality({i \in DOMAIN load_log : load_log[i].parsed}) <= 1
    /\ \A i, j \in DOMAIN load_log :
          (load_log[i].returned /\ load_log[j].returned) =>
              /\ load_log[i].raw = load_log[j].raw
              /\ load_log[i].df = load_log[j].df

\* C5 as amended: once an invocation of load_data has returned, no later
\* invocation parses the file, and every invocation that returns gives the
\* tables of the first one that did (an invocation that raises leaves
\* nothing cached, so the file is parsed again by the next one).
C5_ParsedOnceReturned ==
    \A i, j \in DOMAIN load_log :
        (i < j /\ load_log[i].returned) =>
            /\ ~load_log[j].parsed
            /\ load_log[j].returned
            /\ load_log[i].raw = load_log[j].raw
            /\ load_log[i].df = load_log[j].df

C5_Witness ==
    /\ Len(load_log) >= 2
    /\ load_log[1].returned
    /\ load_log[2].returned
    /\ pc = "overview"
    /\ file.rows # netflix_raw

\* C6 as stated: the body of generate_wordcloud runs at most once for each
\* (table, column name) pair.
C6_ComputedAtMostOncePerPair ==
    \A i, j \in DOMAIN wc_log :
        (/\ i < j
         /\ wc_log[i].df = wc_log[j].df
         /\ wc_log[i].column = wc_log[j].column)
        => ~(wc_log[i].computed /\ wc_log[j].computed)

\* C6 as amended: once generate_wordcloud has returned for a (table, column
\* name) pair, every later invocation for the pair is a cache hit: the body
\* does not run and the result is the first one (an invocation that raises
\* leaves nothing cached, so the body runs again at the next selection).
C6_ComputedOnceReturnedPerPair ==
    \A i, j \in DOMAIN wc_log :
        (/\ i < j
         /\ wc_log[i].df = wc_log[j].df
         /\ wc_log[i].column = wc_log[j].column
         /\ wc_log[i].returned)
        => /\ ~wc_log[j].computed
           /\ wc_log[j].returned
           /\ wc_log[j].fig = wc_log[i].fig

C6_Witness ==
    /\ Len(wc_log) = 3
    /\ wc_log[1].column = wc_log[3].column
    /\ wc_log[1].column # wc_log[2].column
    /\ wc_log[1].returned /\ wc_log[2].returned /\ wc_log[3].returned

\* C7: the selectbox has four options, wordcloud_map has exactly these as
\* keys so the lookup of the selection never fails, and the word cloud a
\* page shows is the one of the cleaned table for the column and title
\* mapped to the current selection.
C7_ShownCloudIsTheSelected ==
    /\ Len(Options) = 4
    /\ Cardinality(Range(Options)) = 4
    /\ DOMAIN wordcloud_map = Range(Options)
    /\ widget \in DOMAIN wordcloud_map
    /\ pc = "wordcloud" => wordcloud_option \in DOMAIN wordcloud_map
    /\ Rendered("wordcloud") =>
          LET column_name == wordcloud_map[widget][1]
              title == wordcloud_map[widget][2]
              cells == [i \in DOMAIN netflix_df |-> netflix_df[i][column_name]]
          IN  /\ wordcloud_fig.title = title
              /\ wordcloud_fig = generate_wordcloud(netflix_df, column_name, title)
              /\ SameBag(Split(wordcloud_fig.text, " "),
                         Flatten([i \in DOMAIN cells |->
                                     Split(str_replace_comma(cells[i]), " ")]))

C7_Witness ==
    /\ Rendered("wordcloud")
    /\ Len(wc_log) = 3
    /\ wc_log[1].column = "listed_in"
    /\ wc_log[2].column = "country"
    /\ wc_log[3].column = "cast"
    /\ wc_log[2].returned
    /\ wordcloud_fig.text # wc_log[2].fig.text

\* The blocks an evaluation renders, in the order of the script.
Blocks == SubSeq(Steps, 2, Len(Steps) - 1)

\* C9: a step that raises ends the evaluation in the error state at that
\* step: the blocks before it are rendered and none after it, a load failure
\* renders nothing, and no step is tried a second time in the evaluation.
C9_FailureStopsThePage ==
    /\ failed_at # "none" <=> pc = "error"
    /\ pc = "error" =>
          /\ failed_at \in Range(Steps) \ {"done"}
          /\ page = SubSeq(Blocks, 1, StepNo(failed_at) - 2)
          /\ failed_at = "load" =>
                /\ page = <<>>
                /\ overview = NoOverview
          /\ StepNo(failed_at) <= StepNo("type") => type_fig = NoTypeFig
          /\ StepNo(failed_at) <= StepNo("rating") => rating_fig = NoRatingFig
          /\ StepNo(failed_at) <= StepNo("type_rating") =>
                type_rating_fig = NoTypeRatingFig
          /\ wordcloud_fig = NoWordcloudFig
    /\ pc # "error" => page = SubSeq(Blocks, 1, StepNo(pc) - 2)
    /\ Len(load_log) <= runs
    /\ Len(wc_log) <= runs

C9_Witness ==
    /\ pc = "error"
    /\ failed_at = "rating"
    /\ page = <<"overview", "type">>
    /\ runs = 2

====
